---------------------------- MODULE Spec2Model ----------------------------
(***************************************************************************)
(* String case converters of the repository: toCamelCase (three            *)
(* declarations), toDotCase and toKebabCase, and the top-level example     *)
(* calls of the three source files.                                        *)
(*                                                                         *)
(* A JavaScript string is modelled as a sequence of one-character strings, *)
(* a value as a record [tag, s] (tag "string", "null" or "undefined"), and *)
(* the outcome of a call as a record [kind, val, name, msg] (kind "return" *)
(* or "throw").  Every String.prototype.replace of the source is modelled  *)
(* as the left-to-right scan the regular expression performs.              *)
(***************************************************************************)
EXTENDS Integers, Sequences, FiniteSets, TLC

\* Longest input string drawn for a direct call of a converter.
MaxLen == 5

-----------------------------------------------------------------------------
(* Characters and character classes *)

LowerSeq ==
  << "a","b","c","d","e","f","g","h","i","j","k","l","m",
     "n","o","p","q","r","s","t","u","v","w","x","y","z" >>

UpperSeq ==
  << "A","B","C","D","E","F","G","H","I","J","K","L","M",
     "N","O","P","Q","R","S","T","U","V","W","X","Y","Z" >>

\* [a-z]
Lower == { LowerSeq[i] : i \in 1..26 }

\* [A-Z]
Upper == { UpperSeq[i] : i \in 1..26 }

\* [0-9]
Digit == { "0","1","2","3","4","5","6","7","8","9" }

\* \s (the ASCII part of it)
WhiteSpace == { " ", "\t", "\n", "\r" }

\* the characters "." does not match
LineTerminator == { "\n", "\r" }

\* [-_\s] of toCamelCase, [\s\-_] of toDotCase and toKebabCase
Separator == WhiteSpace \cup { "-", "_" }

\* [\s_] of toKebabCase
SpaceOrUnderscore == WhiteSpace \cup { "_" }

\* [a-zA-Z0-9]
AlphaNum == Lower \cup Upper \cup Digit

\* [a-zA-Z0-9-]
AlphaNumHyphen == AlphaNum \cup { "-" }

\* The characters of the model: ASCII letters, digits, white space, the
\* hyphen, the underscore, the dot and one other symbol.
Char == AlphaNum \cup WhiteSpace \cup { "-", "_", ".", "*" }

\* [^a-zA-Z0-9]
NonAlphaNum == Char \ AlphaNum

\* String.prototype.toLowerCase on one ASCII character
LowerChar(c) ==
  IF c \in Upper THEN LowerSeq[CHOOSE i \in 1..26 : UpperSeq[i] = c] ELSE c

\* String.prototype.toUpperCase on one ASCII character
UpperChar(c) ==
  IF c \in Lower THEN UpperSeq[CHOOSE i \in 1..26 : LowerSeq[i] = c] ELSE c

\* str.toLowerCase()
ToLowerCase(s) == [ i \in 1..Len(s) |-> LowerChar(s[i]) ]

\* str.endsWith(c) for a one-character c
EndsWith(s, c) == Len(s) > 0 /\ s[Len(s)] = c

\* s from position i on (1-based)
From(s, i) == SubSeq(s, i, Len(s))

\* First position >= i of s whose character is not in class; Len(s)+1 if none.
RECURSIVE RunEnd(_, _, _)
RunEnd(s, i, class) ==
  IF i <= Len(s) /\ s[i] \in class THEN RunEnd(s, i + 1, class) ELSE i

\* str.replace(/[class]+/g, rep): every maximal run of class characters
\* becomes rep.
RECURSIVE ReplaceRuns(_, _, _)
ReplaceRuns(s, class, rep) ==
  IF s = << >> THEN << >>
  ELSE IF s[1] \in class
       THEN rep \o ReplaceRuns(From(s, RunEnd(s, 1, class)), class, rep)
       ELSE << s[1] >> \o ReplaceRuns(Tail(s), class, rep)

\* str.replace(/[^class]/g, ''): every character outside class is dropped.
StripOutside(s, class) == SelectSeq(s, LAMBDA c : c \in class)

\* str.replace(/^[class]+/, ''): the leading run of class characters is dropped.
TrimLeading(s, class) == From(s, RunEnd(s, 1, class))

\* Length of s without its trailing run of class characters.
RECURSIVE TrailStart(_, _)
TrailStart(s, class) ==
  IF Len(s) > 0 /\ s[Len(s)] \in class
  THEN TrailStart(SubSeq(s, 1, Len(s) - 1), class)
  ELSE Len(s)

\* the /[class]+$/ alternative of a global replace with '': the trailing run
\* of class characters is dropped.
TrimTrailing(s, class) == SubSeq(s, 1, TrailStart(s, class))

-----------------------------------------------------------------------------
(* Values, outcomes *)

Str(s) == [ tag |-> "string", s |-> s ]
Null == [ tag |-> "null", s |-> << >> ]
Undefined == [ tag |-> "undefined", s |-> << >> ]
NoValue == [ tag |-> "none", s |-> << >> ]

IsSentinel(v) == v.tag \in { "null", "undefined" }
IsString(v) == v.tag = "string"

Return(v) == [ kind |-> "return", val |-> v, name |-> "", msg |-> "" ]
Throw(n, m) == [ kind |-> "throw", val |-> NoValue, name |-> n, msg |-> m ]
NoResult == [ kind |-> "none", val |-> NoValue, name |-> "", msg |-> "" ]

UnderscoreMessage ==
  "Invalid input: Strings ending with an underscore are not allowed."

DotMessage == "Invalid input: Strings ending with a dot are not allowed."

\* Reading a property of null or undefined (str.toLowerCase, str.endsWith).
PropertyOfNullish == Throw("TypeError", "Cannot read properties of null or undefined")


-----------------------------------------------------------------------------
(* toCamelCase: src/unnamed/part_000 lines 101-121, src/few_shot_prompt.js *)

\* .replace(/[-_\s]+(.)?/g, (match, char) => char ? char.toUpperCase() : '')
\* The run is maximal, so the character after it is no separator (and so no
\* line terminator): (.)? takes it whenever the string goes on.
RECURSIVE CamelReplace(_)
CamelReplace(s) ==
  IF s = << >> THEN << >>
  ELSE IF s[1] \in Separator
       THEN LET j == RunEnd(s, 1, Separator)
            IN  IF j <= Len(s)
                THEN << UpperChar(s[j]) >> \o CamelReplace(From(s, j + 1))
                ELSE << >>
       ELSE << s[1] >> \o CamelReplace(Tail(s))

\* .replace(/^([A-Z])/, (match) => match.toLowerCase())
LowerFirst(s) ==
  IF Len(s) > 0 /\ s[1] \in Upper THEN << LowerChar(s[1]) >> \o Tail(s) ELSE s

\* str.toLowerCase().replace(...).replace(...), the chain both validating and
\* unvalidated declarations return
CamelChain(s) == LowerFirst(CamelReplace(ToLowerCase(s)))

\* function toCamelCase(str) of src/unnamed/part_000, line 101
toCamelCase(str) ==
  IF IsSentinel(str) THEN Return(str)
  ELSE IF EndsWith(str.s, "_") THEN Throw("Error", UnderscoreMessage)
  ELSE Return(Str(CamelChain(str.s)))

\* function toCamelCase(str) of src/few_shot_prompt.js: no sentinel check, no
\* validation
toCamelCase_few_shot(str) ==
  IF IsSentinel(str) THEN PropertyOfNullish
  ELSE Return(Str(CamelChain(str.s)))

-----------------------------------------------------------------------------
(* toCamelCase, the last declaration: src/unnamed/part_000 lines 182-186 *)

\* Largest k in 2..Len(s) with s[k] no line terminator, 0 if none: where (.)
\* ends up when the run of [^a-zA-Z0-9] reaches the end of the string and the
\* + gives characters back.
RECURSIVE LastDot(_, _)
LastDot(s, k) ==
  IF k < 2 THEN 0
  ELSE IF s[k] \notin LineTerminator THEN k
  ELSE LastDot(s, k - 1)

\* .replace(/[^a-zA-Z0-9]+(.)/g, (m, chr) => chr.toUpperCase())
RECURSIVE LooseReplace(_)
LooseReplace(s) ==
  IF s = << >> THEN << >>
  ELSE IF s[1] \in NonAlphaNum
       THEN LET j == RunEnd(s, 1, NonAlphaNum)
                k == IF j <= Len(s) THEN j ELSE LastDot(s, Len(s))
            IN  IF k = 0
                THEN << s[1] >> \o LooseReplace(Tail(s))
                ELSE << UpperChar(s[k]) >> \o LooseReplace(From(s, k + 1))
       ELSE << s[1] >> \o LooseReplace(Tail(s))

\* function toCamelCase(str) of src/unnamed/part_000, line 182
toCamelCase_last(str) ==
  IF IsSentinel(str) THEN PropertyOfNullish
  ELSE Return(Str(LooseReplace(ToLowerCase(str.s))))

-----------------------------------------------------------------------------
(* toDotCase: src/unnamed/part_000 lines 144-167 *)

\* str.replace(/([left])([right])/g, '$1' + sep + '$2')
RECURSIVE InsertBetween(_, _, _, _)
InsertBetween(s, left, right, sep) ==
  IF Len(s) < 2 THEN s
  ELSE IF s[1] \in left /\ s[2] \in right
       THEN << s[1] >> \o sep \o << s[2] >>
              \o InsertBetween(From(s, 3), left, right, sep)
       ELSE << s[1] >> \o InsertBetween(Tail(s), left, right, sep)

\* DotChain without step 7, the trim of leading dots.
DotChain_NoTrim(s) ==
  LET camel == InsertBetween(s, Lower, Upper, << "." >>)
      dotted == ReplaceRuns(camel, Separator, << "." >>)
      lowered == ToLowerCase(dotted)
  IN  ReplaceRuns(lowered, { "." }, << "." >>)

\* the chain toDotCase returns, steps 3 to 7
DotChain(s) ==
  LET camel == InsertBetween(s, Lower, Upper, << "." >>)
      dotted == ReplaceRuns(camel, Separator, << "." >>)
      lowered == ToLowerCase(dotted)
      single == ReplaceRuns(lowered, { "." }, << "." >>)
  IN  TrimLeading(single, { "." })

\* toDotCase with the validation of toCamelCase copied unchanged: it rejects a
\* trailing underscore and accepts a trailing dot.
toDotCase_UnderscoreCheck(str) ==
  IF IsSentinel(str) THEN Return(str)
  ELSE IF EndsWith(str.s, "_") THEN Throw("Error", UnderscoreMessage)
  ELSE Return(Str(DotChain(str.s)))

\* function toDotCase(str)
toDotCase(str) ==
  IF IsSentinel(str) THEN Return(str)
  ELSE IF EndsWith(str.s, ".") THEN Throw("Error", DotMessage)
  ELSE Return(Str(DotChain(str.s)))

-----------------------------------------------------------------------------
(* toKebabCase: src/chain_prompt.js lines 7-41 *)

\* regex.test(str) for a one-character class
Test(s, class) == \E i \in 1..Len(s) : s[i] \in class

\* the condition of the single-word return, step 3
FastPath(s) == ~Test(s, Separator) /\ ~Test(s, Upper)

\* .replace(/([A-Z])([A-Z][a-z])/g, '$1-$2')
RECURSIVE InsertAcronym(_)
InsertAcronym(s) ==
  IF Len(s) < 3 THEN s
  ELSE IF s[1] \in Upper /\ s[2] \in Upper /\ s[3] \in Lower
       THEN << s[1], "-", s[2], s[3] >> \o InsertAcronym(From(s, 4))
       ELSE << s[1] >> \o InsertAcronym(Tail(s))

\* let result = str.replace(...)...: steps 4 to 7
KebabResult(s) ==
  LET lowerUpper == InsertBetween(s, Lower \cup Digit, Upper, << "-" >>)
      acronym == InsertAcronym(lowerUpper)
      hyphened == ReplaceRuns(acronym, SpaceOrUnderscore, << "-" >>)
  IN  StripOutside(hyphened, AlphaNumHyphen)

\* KebabFinal with /^-+/ alone as the last pattern: trailing hyphens stay.
KebabFinal_LeadingOnly(r) ==
  LET single == ReplaceRuns(ToLowerCase(r), { "-" }, << "-" >>)
  IN  TrimLeading(single, { "-" })

\* return result.toLowerCase().replace(/-+/g, '-').replace(/^-+|-+$/g, ''):
\* step 8
KebabFinal(r) ==
  LET single == ReplaceRuns(ToLowerCase(r), { "-" }, << "-" >>)
  IN  TrimTrailing(TrimLeading(single, { "-" }), { "-" })

\* The full path with step 7 moved behind step 8: hyphens are collapsed and
\* trimmed while the symbols are still in place, and the symbols go last.
KebabFullPath_StripLast(s) ==
  LET lowerUpper == InsertBetween(s, Lower \cup Digit, Upper, << "-" >>)
      acronym == InsertAcronym(lowerUpper)
      hyphened == ReplaceRuns(acronym, SpaceOrUnderscore, << "-" >>)
  IN  StripOutside(KebabFinal(hyphened), AlphaNumHyphen)

\* steps 4 to 8, what follows the single-word return
KebabFullPath(s) == KebabFinal(KebabResult(s))

\* function toKebabCase(str)
toKebabCase(str) ==
  IF IsSentinel(str) THEN Return(Str(<< >>))
  ELSE IF EndsWith(str.s, "_") THEN Throw("Error", UnderscoreMessage)
  ELSE IF FastPath(str.s) THEN Return(Str(ToLowerCase(str.s)))
  ELSE Return(Str(KebabFullPath(str.s)))

-----------------------------------------------------------------------------
(* The source files as scripts: declarations and top-level calls *)

Files == { "few_shot_prompt.js", "chain_prompt.js", "part_000" }

\* The function declarations of a file, in source order: the name declared
\* and the operator that models the body.
Declarations(f) ==
  CASE f = "few_shot_prompt.js" ->
         << [ name |-> "toCamelCase", def |-> "toCamelCase_few_shot" ] >>
    [] f = "chain_prompt.js" ->
         << [ name |-> "toKebabCase", def |-> "toKebabCase" ] >>
    [] f = "part_000" ->
         << [ name |-> "toCamelCase", def |-> "toCamelCase" ],
            [ name |-> "toDotCase", def |-> "toDotCase" ],
            [ name |-> "toCamelCase", def |-> "toCamelCase_last" ] >>

\* What a name calls anywhere in a file: function declarations are hoisted,
\* and of two declarations of one name the later one replaces the earlier
\* before the first statement runs.
Binding(f, n) ==
  LET d == Declarations(f)
      last == CHOOSE i \in 1..Len(d) :
                /\ d[i].name = n
                /\ \A j \in (i + 1)..Len(d) : d[j].name # n
  IN  d[last].def

Converters ==
  { "toCamelCase", "toCamelCase_few_shot", "toCamelCase_last",
    "toDotCase", "toKebabCase" }

\* A call of the declaration def with argument v.
Apply(def, v) ==
  CASE def = "toCamelCase" -> toCamelCase(v)
    [] def = "toCamelCase_few_shot" -> toCamelCase_few_shot(v)
    [] def = "toCamelCase_last" -> toCamelCase_last(v)
    [] def = "toDotCase" -> toDotCase(v)
    [] def = "toKebabCase" -> toKebabCase(v)

\* An error message as console.error prints it.
Message(m) == [ tag |-> "message", s |-> << m >> ]

\* The top-level calls of each file, in source order: console.log(callee(arg))
\* (inside try { } catch (e) { console.error(e.message) } when inTry), with
\* the output its trailing comment documents.
FewShotCalls ==
  <<
     [ callee |-> "toCamelCase", line |-> 21, inTry |-> FALSE,
       arg |-> Str(<< "f", "i", "r", "s", "t", " ", "n", "a", "m", "e" >>),
       doc |-> Str(<< "f", "i", "r", "s", "t", "N", "a", "m", "e" >>) ],
     [ callee |-> "toCamelCase", line |-> 22, inTry |-> FALSE,
       arg |-> Str(<< "u", "s", "e", "r", "_", "i", "d" >>),
       doc |-> Str(<< "u", "s", "e", "r", "I", "d" >>) ],
     [ callee |-> "toCamelCase", line |-> 23, inTry |-> FALSE,
       arg |-> Str(<< "S", "C", "R", "E", "E", "N", "_", "N", "A", "M", "E" >>),
       doc |-> Str(<< "s", "c", "r", "e", "e", "n", "N", "a", "m", "e" >>) ],
     [ callee |-> "toCamelCase", line |-> 24, inTry |-> FALSE,
       arg |-> Str(<< "m", "o", "b", "i", "l", "e", "-", "n", "u", "m", "b", "e", "r" >>),
       doc |-> Str(<< "m", "o", "b", "i", "l", "e", "N", "u", "m", "b", "e", "r" >>) ]
  >>

ChainCalls ==
  <<
     [ callee |-> "toKebabCase", line |-> 44, inTry |-> FALSE,
       arg |-> Str(<< "m", "y", "V", "a", "r" >>),
       doc |-> Str(<< "m", "y", "-", "v", "a", "r" >>) ],
     [ callee |-> "toKebabCase", line |-> 45, inTry |-> FALSE,
       arg |-> Str(<< "N", "A", "S", "A", "S", "p", "a", "c", "e", "s", "h", "i", "p" >>),
       doc |-> Str(<< "n", "a", "s", "a", "-", "s", "p", "a", "c", "e", "s", "h", "i", "p" >>) ],
     [ callee |-> "toKebabCase", line |-> 46, inTry |-> FALSE,
       arg |-> Str(<< "f", "i", "r", "s", "t", "_", "n", "a", "m", "e" >>),
       doc |-> Str(<< "f", "i", "r", "s", "t", "-", "n", "a", "m", "e" >>) ],
     [ callee |-> "toKebabCase", line |-> 47, inTry |-> FALSE,
       arg |-> Str(<< "s", "i", "m", "p", "l", "e" >>),
       doc |-> Str(<< "s", "i", "m", "p", "l", "e" >>) ],
     [ callee |-> "toKebabCase", line |-> 48, inTry |-> FALSE,
       arg |-> Str(<< "W", "a", "i", "t", "*", "F", "o", "r", "*", "I", "t" >>),
       doc |-> Str(<< "w", "a", "i", "t", "-", "f", "o", "r", "-", "i", "t" >>) ]
  >>

Part000Calls ==
  <<
     [ callee |-> "toCamelCase", line |-> 124, inTry |-> FALSE,
       arg |-> Str(<< "f", "i", "r", "s", "t", " ", "n", "a", "m", "e" >>),
       doc |-> Str(<< "f", "i", "r", "s", "t", "N", "a", "m", "e" >>) ],
     [ callee |-> "toCamelCase", line |-> 125, inTry |-> FALSE,
       arg |-> Str(<< "u", "s", "e", "r", "_", "i", "d" >>),
       doc |-> Str(<< "u", "s", "e", "r", "I", "d" >>) ],
     [ callee |-> "toCamelCase", line |-> 126, inTry |-> FALSE,
       arg |-> Str(<< "S", "C", "R", "E", "E", "N", "_", "N", "A", "M", "E" >>),
       doc |-> Str(<< "s", "c", "r", "e", "e", "n", "N", "a", "m", "e" >>) ],
     [ callee |-> "toCamelCase", line |-> 127, inTry |-> FALSE,
       arg |-> Str(<< "m", "o", "b", "i", "l", "e", "-", "n", "u", "m", "b", "e", "r" >>),
       doc |-> Str(<< "m", "o", "b", "i", "l", "e", "N", "u", "m", "b", "e", "r" >>) ],
     [ callee |-> "toCamelCase", line |-> 128, inTry |-> FALSE,
       arg |-> Str(<< "S", "i", "n", "g", "l", "e" >>),
       doc |-> Str(<< "s", "i", "n", "g", "l", "e" >>) ],
     [ callee |-> "toCamelCase", line |-> 129, inTry |-> FALSE,
       arg |-> Null,
       doc |-> Null ],
     [ callee |-> "toCamelCase", line |-> 133, inTry |-> TRUE,
       arg |-> Str(<< "i", "n", "v", "a", "l", "i", "d", "_", "e", "n", "d", "_" >>),
       doc |-> Message(UnderscoreMessage) ],
     [ callee |-> "toDotCase", line |-> 170, inTry |-> FALSE,
       arg |-> Str(<< "f", "i", "r", "s", "t", " ", "n", "a", "m", "e" >>),
       doc |-> Str(<< "f", "i", "r", "s", "t", ".", "n", "a", "m", "e" >>) ],
     [ callee |-> "toDotCase", line |-> 171, inTry |-> FALSE,
       arg |-> Str(<< "u", "s", "e", "r", "_", "i", "d" >>),
       doc |-> Str(<< "u", "s", "e", "r", ".", "i", "d" >>) ],
     [ callee |-> "toDotCase", line |-> 172, inTry |-> FALSE,
       arg |-> Str(<< "S", "C", "R", "E", "E", "N", "_", "N", "A", "M", "E" >>),
       doc |-> Str(<< "s", "c", "r", "e", "e", "n", ".", "n", "a", "m", "e" >>) ],
     [ callee |-> "toDotCase", line |-> 173, inTry |-> FALSE,
       arg |-> Str(<< "c", "o", "n", "v", "e", "r", "t", "-", "t", "o", "-", "d", "o", "t" >>),
       doc |-> Str(<< "c", "o", "n", "v", "e", "r", "t", ".", "t", "o", ".", "d", "o", "t" >>) ],
     [ callee |-> "toCamelCase", line |-> 189, inTry |-> FALSE,
       arg |-> Str(<< "g", "e", "t", "_", "u", "s", "e", "r", "_", "i", "n", "f", "o" >>),
       doc |-> Str(<< "g", "e", "t", "U", "s", "e", "r", "I", "n", "f", "o" >>) ],
     [ callee |-> "toCamelCase", line |-> 190, inTry |-> FALSE,
       arg |-> Str(<< "C", "S", "S", "-", "s", "t", "y", "l", "e", "-", "p", "r", "o", "p", "e", "r", "t", "y" >>),
       doc |-> Str(<< "c", "s", "s", "S", "t", "y", "l", "e", "P", "r", "o", "p", "e", "r", "t", "y" >>) ]
  >>

Calls(f) ==
  CASE f = "few_shot_prompt.js" -> FewShotCalls
    [] f = "chain_prompt.js" -> ChainCalls
    [] f = "part_000" -> Part000Calls

-----------------------------------------------------------------------------
(* State *)

VARIABLES
  host,     \* "caller" (a direct call of one declaration) or the file run
  pc,       \* caller: "ready", "called", "twice"; file: "running", "crashed", "exited"
  fn,       \* the declaration called last ("" before any call)
  input,    \* the argument of the first (caller) or last (file) call
  result,   \* the outcome of that call
  result2,  \* caller: the outcome of calling fn again on the value returned
  ip,       \* file: the number of top-level calls completed
  console   \* file: the values printed so far

vars == << host, pc, fn, input, result, result2, ip, console >>

\* The characters direct calls draw their strings from: a lower-case letter,
\* an upper-case letter, a digit, the three separators, the dot, a symbol.
Sigma == { "a", "B", "1", "_", "-", " ", ".", "*" }

Strings == UNION { [ 1..n -> Sigma ] : n \in 0..MaxLen }

Inputs == { Str(s) : s \in Strings } \cup { Null, Undefined }

Init ==
  /\ host \in { "caller" } \cup Files
  /\ IF host = "caller"
     THEN /\ pc = "ready"
          /\ fn \in Converters
          /\ input \in Inputs
     ELSE /\ pc = "running"
          /\ fn = ""
          /\ input = Undefined
  /\ result = NoResult
  /\ result2 = NoResult
  /\ ip = 0
  /\ console = << >>

\* A caller applies a declaration to a value.
Convert ==
  /\ host = "caller"
  /\ pc = "ready"
  /\ result' = Apply(fn, input)
  /\ pc' = "called"
  /\ UNCHANGED << host, fn, input, result2, ip, console >>

\* The caller applies the same declaration to the value it got back.
ConvertAgain ==
  /\ host = "caller"
  /\ pc = "called"
  /\ result.kind = "return"
  /\ result2' = Apply(fn, result.val)
  /\ pc' = "twice"
  /\ UNCHANGED << host, fn, input, result, ip, console >>

\* The file's next top-level call: the callee is what its name is bound to in
\* the file; the value returned is printed; an error thrown inside try is
\* caught and its message printed; an error thrown outside ends the run.
RunStatement ==
  /\ host \in Files
  /\ pc = "running"
  /\ ip < Len(Calls(host))
  /\ LET c == Calls(host)[ip + 1]
         def == Binding(host, c.callee)
         r == Apply(def, c.arg)
     IN  /\ fn' = def
         /\ input' = c.arg
         /\ result' = r
         /\ ip' = ip + 1
         /\ IF r.kind = "return"
            THEN /\ console' = Append(console, r.val)
                 /\ pc' = "running"
            ELSE IF c.inTry
            THEN /\ console' = Append(console, Message(r.msg))
                 /\ pc' = "running"
            ELSE /\ console' = console
                 /\ pc' = "crashed"
  /\ UNCHANGED << host, result2 >>

\* The file has no call left.
Exit ==
  /\ host \in Files
  /\ pc = "running"
  /\ ip = Len(Calls(host))
  /\ pc' = "exited"
  /\ UNCHANGED << host, fn, input, result, result2, ip, console >>

Next == Convert \/ ConvertAgain \/ RunStatement \/ Exit

Spec == Init /\ [][Next]_vars

-----------------------------------------------------------------------------
(* Properties *)

\* A call has been made and its outcome recorded.
Called == result.kind # "none"

\* The caller has applied fn twice.
Twice == host = "caller" /\ pc = "twice"

\* The declarations that validate their input, with the trailing character
\* each is said to forbid and the message it is said to carry.
Validating == { "toCamelCase", "toDotCase", "toKebabCase" }

Forbidden(f) == IF f = "toDotCase" THEN "." ELSE "_"

MessageOf(f) == IF f = "toDotCase" THEN DotMessage ELSE UnderscoreMessage

\* The three declarations of toCamelCase.
CamelDeclarations ==
  { "toCamelCase", "toCamelCase_few_shot", "toCamelCase_last" }

\* s holds c twice in a row.
HasDouble(s, c) == \E i \in 1..(Len(s) - 1) : s[i] = c /\ s[i + 1] = c

\* s neither holds c twice in a row nor starts with c.
NoDoubleNoLead(s, c) == ~HasDouble(s, c) /\ (Len(s) > 0 => s[1] # c)

\* s neither holds c twice in a row nor starts or ends with c.
NoDoubleNoEdge(s, c) == NoDoubleNoLead(s, c) /\ ~EndsWith(s, c)

\* What C2 says of one call of f on the string v with outcome r.
RaisesIffForbidden(f, v, r) ==
  LET ends == EndsWith(v.s, Forbidden(f))
  IN  /\ (r.kind = "throw") <=> ends
      /\ ends => r = Throw("Error", MessageOf(f))
      /\ ~ends => r.kind = "return" /\ IsString(r.val)

C3_SentinelOutcome ==
  /\ ( /\ host = "caller"
       /\ Called
       /\ IsSentinel(input)
       /\ fn \in { "toCamelCase", "toDotCase" } )
     => result = Return(input)
  /\ (host = "caller" /\ Called /\ IsSentinel(input) /\ fn = "toKebabCase")
     => result = Return(Str(<< >>))
  /\ ( /\ host = "part_000"
       /\ ip >= 1
       /\ Calls(host)[ip].callee = "toCamelCase"
       /\ Calls(host)[ip].arg = Null )
     => result = Return(Null)

\* C4: each example call of toKebabCase in chain_prompt.js returns the output
\* its comment documents ("myVar" to "my-var", "NASASpaceship" to
\* "nasa-spaceship", "first_name" to "first-name", "simple" to "simple",
\* "Wait*For*It" to "wait-for-it").
C4_KebabExamples ==
  (host = "chain_prompt.js" /\ ip >= 1)
  => result = Return(Calls(host)[ip].doc)

\* C5: for a string that does not end with an underscore the output of
\* toKebabCase holds no two consecutive hyphens and neither starts nor ends
\* with a hyphen.
C5_KebabHyphenShape ==
  /\ ( /\ Called
       /\ fn = "toKebabCase"
       /\ IsString(input)
       /\ ~EndsWith(input.s, "_") )
     => /\ result.kind = "return"
        /\ NoDoubleNoEdge(result.val.s, "-")
  /\ (Twice /\ fn = "toKebabCase" /\ result2.kind = "return")
     => NoDoubleNoEdge(result2.val.s, "-")

\* C5 witness: the full path has run on a string that starts with a hyphen,
\* holds two separators in a row and ends with a separator, and the output
\* is not empty.
C5_Witness ==
  /\ host = "caller"
  /\ pc = "called"
  /\ fn = "toKebabCase"
  /\ IsString(input)
  /\ Len(input.s) >= 4
  /\ input.s[1] = "-"
  /\ input.s[Len(input.s)] \in { "-", " " }
  /\ \E i \in 1..(Len(input.s) - 1) :
       input.s[i] \in Separator /\ input.s[i + 1] \in Separator
  /\ result.kind = "return"
  /\ result.val.s # << >>

\* C6: for a string that does not end with a dot the output of toDotCase
\* holds no two consecutive dots and does not start with a dot; for a string
\* of separators only the output is the empty string, which has that shape.
C6_DotShape ==
  ( /\ Called
    /\ fn = "toDotCase"
    /\ IsString(input)
    /\ ~EndsWith(input.s, ".") )
  => /\ result.kind = "return"
     /\ NoDoubleNoLead(result.val.s, ".")
     /\ (\A i \in 1..Len(input.s) : input.s[i] \in Separator)
          => result.val.s = << >>

\* C6 witness: toDotCase has returned the empty string for a string of two or
\* more separators, not all the same.
C6_Witness ==
  /\ host = "caller"
  /\ pc = "called"
  /\ fn = "toDotCase"
  /\ IsString(input)
  /\ Len(input.s) >= 2
  /\ \A i \in 1..Len(input.s) : input.s[i] \in Separator
  /\ input.s[1] # input.s[2]
  /\ result = Return(Str(<< >>))

\* C7: for a string that does not end with an underscore the output of
\* toCamelCase never starts with an upper-case letter, for each of the three
\* declarations of toCamelCase.
C7_CamelNeverStartsUpper ==
  ( /\ Called
    /\ fn \in CamelDeclarations
    /\ IsString(input)
    /\ ~EndsWith(input.s, "_")
    /\ result.kind = "return" )
  => ~(Len(result.val.s) > 0 /\ result.val.s[1] \in Upper)

\* C8: toDotCase is idempotent: for every string x that does not end with a
\* dot, toDotCase(toDotCase(x)) equals toDotCase(x); the second application
\* never raises.
C8_DotIdempotent ==
  (Twice /\ fn = "toDotCase" /\ IsString(input) /\ ~EndsWith(input.s, "."))
  => result2 = result

\* C9: toKebabCase is idempotent: for every string x that does not end with
\* an underscore, toKebabCase(toKebabCase(x)) equals toKebabCase(x), and the
\* second application never raises, on the fast path and on the full path.
C9_KebabIdempotent ==
  ( /\ host = "caller"
    /\ pc \in { "called", "twice" }
    /\ fn = "toKebabCase"
    /\ IsString(input)
    /\ ~EndsWith(input.s, "_") )
  => /\ result.kind = "return"
     /\ pc = "twice" => result2 = result

\* C9 witness: toKebabCase has been applied twice to a string that took the
\* full path, lost a symbol and gained a hyphen there, and the second
\* application returned the first output.
C9_Witness ==
  /\ Twice
  /\ fn = "toKebabCase"
  /\ IsString(input)
  /\ ~FastPath(input.s)
  /\ Test(input.s, { "*", "." })
  /\ ~Test(input.s, { "-" })
  /\ Test(result.val.s, { "-" })
  /\ result2 = result

\* C10: the fast path of toKebabCase is equivalent to the full path: for a
\* string with no white space, hyphen or underscore and no upper-case letter
\* the value returned equals what steps 4 to 8 produce on that string.
C10_FastPathEquivalent ==
  ( /\ Called
    /\ fn = "toKebabCase"
    /\ IsString(input)
    /\ FastPath(input.s) )
  => result = Return(Str(KebabFullPath(input.s)))

=============================================================================
